---------------------------- MODULE Spec2Model ----------------------------
(***************************************************************************)
(* Model of src/src/lib.rs (dyn-parse): ParserClient::dynamic_parse,       *)
(* ParserClient::dynamic_parse_with_details and the helpers they call.     *)
(*                                                                         *)
(* Text is modelled as a sequence of pieces.  A piece is either one        *)
(* character/byte of data that comes from outside the program (process     *)
(* output, model reply, document) or one literal fragment of a format      *)
(* string of the source.  format!() is concatenation of such sequences.    *)
(***************************************************************************)
EXTENDS Integers, Sequences, FiniteSets, TLC

(***************************************************************************)
(* Program constant and bounds of the model.                               *)
(***************************************************************************)
MAX_RETRIES == 3

\* longest process output enumerated by the executor specification
MaxOutLen == 3

(***************************************************************************)
(* Characters and bytes.                                                   *)
(***************************************************************************)
\* a byte that is not part of any well-formed UTF-8 sequence (0xFF)
BAD == "<0xFF>"

\* char::is_whitespace as used by str::trim (Unicode White_Space)
RustWhitespace == {" ", "\n", "\t", "\r", "\f"}

\* the whitespace serde_json skips between tokens (RFC 8259)
JsonWhitespace == {" ", "\n", "\t", "\r"}

\* the bytes a modelled process writes
OutAlphabet == {" ", "\f", "1", "[", "]", ",", BAD}

SeqsUpTo(S, n) == UNION {[1..k -> S] : k \in 0..n}

(***************************************************************************)
(* Option<T>: None is the empty sequence, Some(x) the one-element sequence *)
(***************************************************************************)
None == <<>>
Some(x) == <<x>>
unwrap_or(opt, default) == IF opt = None THEN default ELSE opt[1]

(***************************************************************************)
(* Display of integers ({} in format!).                                    *)
(***************************************************************************)
Digit(d) ==
    CASE d = 0 -> "0" [] d = 1 -> "1" [] d = 2 -> "2" [] d = 3 -> "3"
      [] d = 4 -> "4" [] d = 5 -> "5" [] d = 6 -> "6" [] d = 7 -> "7"
      [] d = 8 -> "8" [] d = 9 -> "9"

RECURSIVE NatToStr(_)
NatToStr(n) ==
    IF n < 10 THEN <<Digit(n)>> ELSE NatToStr(n \div 10) \o <<Digit(n % 10)>>

IntToStr(n) == IF n < 0 THEN <<"-">> \o NatToStr(-n) ELSE NatToStr(n)

(***************************************************************************)
(* String helpers of the standard library.                                 *)
(***************************************************************************)
\* String::from_utf8: Ok(text) when every byte sequence is well formed
from_utf8_ok(bytes) == \A i \in 1..Len(bytes) : bytes[i] # BAD

RECURSIVE trim_start(_)
trim_start(s) ==
    IF s # <<>> /\ Head(s) \in RustWhitespace THEN trim_start(Tail(s)) ELSE s

RECURSIVE trim_end(_)
trim_end(s) ==
    IF s # <<>> /\ s[Len(s)] \in RustWhitespace
    THEN trim_end(SubSeq(s, 1, Len(s) - 1))
    ELSE s

\* str::trim
trim(s) == trim_end(trim_start(s))

\* str::contains
Contains(s, t) ==
    \E i \in 0..(Len(s) - Len(t)) : SubSeq(s, i + 1, i + Len(t)) = t

(***************************************************************************)
(* serde_json::from_str::<Value>, restricted to the JSON values that can   *)
(* be written with OutAlphabet: numbers made of the digit 1 and arrays.    *)
(* Each Parse* operator takes the text and the index of the next unread    *)
(* piece and returns the index after what it consumed, or 0 on a syntax    *)
(* error.                                                                  *)
(***************************************************************************)
RECURSIVE SkipWs(_, _)
SkipWs(s, i) ==
    IF i <= Len(s) /\ s[i] \in JsonWhitespace THEN SkipWs(s, i + 1) ELSE i

RECURSIVE SkipDigits(_, _)
SkipDigits(s, i) ==
    IF i <= Len(s) /\ s[i] = "1" THEN SkipDigits(s, i + 1) ELSE i

RECURSIVE ParseValue(_, _)
RECURSIVE ParseElements(_, _)

\* after an element of an array: "," and another element, or "]"
ParseElements(s, i) ==
    LET j == SkipWs(s, i) IN
    IF j > Len(s) THEN 0
    ELSE IF s[j] = "]" THEN j + 1
    ELSE IF s[j] = ","
         THEN LET k == ParseValue(s, SkipWs(s, j + 1)) IN
              IF k = 0 THEN 0 ELSE ParseElements(s, k)
         ELSE 0

ParseValue(s, i) ==
    IF i > Len(s) THEN 0
    ELSE IF s[i] = "1" THEN SkipDigits(s, i)
    ELSE IF s[i] = "["
         THEN LET j == SkipWs(s, i + 1) IN
              IF j > Len(s) THEN 0
              ELSE IF s[j] = "]" THEN j + 1
              ELSE LET k == ParseValue(s, j) IN
                   IF k = 0 THEN 0 ELSE ParseElements(s, k)
         ELSE 0

\* from_str: one value, then only whitespace up to the end of the input
serde_json_from_str_ok(s) ==
    LET k == ParseValue(s, SkipWs(s, 1)) IN
    k # 0 /\ SkipWs(s, k) = Len(s) + 1


(***************************************************************************)
(* Result<T>: Ok(v) and Err(message).                                      *)
(***************************************************************************)
Ok(v) == [ok |-> TRUE, val |-> v]
Err(e) == [ok |-> FALSE, val |-> e]

(***************************************************************************)
(* std::process::ExitStatus and std::process::Output.                      *)
(***************************************************************************)
Exited(c) == [exited |-> TRUE, code |-> c]
Signaled(sig) == [exited |-> FALSE, code |-> sig]

\* ExitStatus::success(): the process exited, with code 0
status_success(status) == status.exited /\ status.code = 0

\* ExitStatus::code(): None when the process was terminated by a signal
status_code(status) == IF status.exited THEN Some(status.code) ELSE None

Output(status, stdout, stderr) ==
    [status |-> status, stdout |-> stdout, stderr |-> stderr]

(***************************************************************************)
(* Error texts produced outside the program (Display of library errors).   *)
(***************************************************************************)
FromUtf8Error == <<"invalid utf-8 sequence">>
serde_json_error == <<"expected value at line 1 column 1">>
SpawnErrors == {<<"No such file or directory (os error 2)">>}
WaitErrors == {<<"Broken pipe (os error 32)">>}
GenerationErrors == {<<"model backend error">>}

(***************************************************************************)
(* ParserClient::execute_python_script, from the completed process on:     *)
(* classification of the captured output.                                  *)
(***************************************************************************)
\* fault variant: the output is tested without trimming it
produced_no_output_Untrimmed(stdout) == stdout = <<>>

\* line 193: stdout.trim().is_empty()
produced_no_output(stdout) == trim(stdout) = <<>>

\* fault variant: the JSON validation is left out
is_valid_json_Skipped(stdout) == TRUE

\* line 200: serde_json::from_str::<serde_json::Value>(&stdout) is Ok
is_valid_json(stdout) == serde_json_from_str_ok(stdout)

\* fault variant: the message leaves out the captured standard error
execution_failed_message_NoStderr(python_script, status, error_message) ==
    <<"Python script execution failed with exit code: ">>
        \o IntToStr(unwrap_or(status_code(status), -1))
        \o <<"\nSCRIPT:\n">> \o python_script

\* lines 214-219: the message of the non-zero exit
execution_failed_message(python_script, status, error_message) ==
    <<"Python script execution failed with exit code: ">>
        \o IntToStr(unwrap_or(status_code(status), -1))
        \o <<"\nSTDERR: ">> \o error_message
        \o <<"\nSCRIPT:\n">> \o python_script

\* fault variant: the message leaves out the raw output
invalid_json_message_NoOutput(stdout) ==
    <<"Script output is not valid JSON: ">> \o serde_json_error

\* line 203: the message of the invalid output
invalid_json_message(stdout) ==
    <<"Script output is not valid JSON: ">> \o serde_json_error
        \o <<"\nOutput was: ">> \o stdout

no_output_message == <<"Script executed successfully but produced no output">>

\* fault variant: a status without an exit code is taken for exit code 0
exit_ok_MissingCodeIsZero(output) ==
    unwrap_or(status_code(output.status), 0) = 0

\* line 188: output.status.success()
exit_ok(output) == status_success(output.status)

execute_python_script(python_script, output) ==
    IF exit_ok(output)
    THEN IF ~from_utf8_ok(output.stdout) THEN Err(FromUtf8Error)
         ELSE IF produced_no_output(output.stdout) THEN Err(no_output_message)
         ELSE IF ~is_valid_json(output.stdout)
              THEN Err(invalid_json_message(output.stdout))
              ELSE Ok(output.stdout)
    ELSE IF ~from_utf8_ok(output.stderr) THEN Err(FromUtf8Error)
         ELSE Err(execution_failed_message(python_script, output.status,
                                           output.stderr))

(***************************************************************************)
(* struct ParseAttempt.                                                    *)
(***************************************************************************)
ParseAttempt(attempt_number, script, error, success) ==
    [attempt_number |-> attempt_number, script |-> script,
     error |-> error, success |-> success]

(***************************************************************************)
(* ParserClient::build_user_prompt.                                        *)
(***************************************************************************)
\* the Markdown code fence of lines 269 and 271 (three grave accents)
FENCE == "<fence>"

\* fault variant: the failed script is left out of the history
prompt_entry_NoScript(a) ==
    <<"Attempt ">> \o IntToStr(a.attempt_number) \o <<": ">>
      \o (IF a.error # None
          THEN <<"FAILED - ">> \o a.error[1] \o <<"\n">>
          ELSE <<"SUCCESS\n">>)

\* lines 264-275: the lines of one prior attempt
prompt_entry(a) ==
    <<"Attempt ">> \o IntToStr(a.attempt_number) \o <<": ">>
      \o (IF a.error # None
          THEN <<"FAILED - ">> \o a.error[1] \o <<"\n">>
                 \o (IF a.script # <<>>
                     THEN <<"Script that failed:\n", FENCE, "python\n">> \o a.script
                            \o <<"\n", FENCE, "\n\n">>
                     ELSE <<>>)
          ELSE <<"SUCCESS\n">>)

\* fault variant: the prior attempts are listed latest first
RECURSIVE prompt_history_Reversed(_)
prompt_history_Reversed(log) ==
    IF log = <<>> THEN <<>>
    ELSE prompt_history_Reversed(Tail(log)) \o prompt_entry(Head(log))

\* lines 263-276: `for attempt in attempts`
RECURSIVE prompt_history(_)
prompt_history(log) ==
    IF log = <<>> THEN <<>>
    ELSE prompt_entry(Head(log)) \o prompt_history(Tail(log))

build_user_prompt(doc, instr, log, current_attempt) ==
    <<"\n**Instructions:**\n">> \o instr
      \o <<"\n\n**Document to Parse:**\n---\n">> \o doc \o <<"\n---\n">>
      \o (IF current_attempt > 1 /\ log # <<>>
          THEN <<"\n**Previous Attempts and Errors:**\n">>
                 \o prompt_history(log)
                 \o <<"Please learn from these errors and create a better script.\n\n">>
          ELSE <<>>)
      \o <<"Provide the Python script now:">>

(***************************************************************************)
(* ParserClient::format_attempt_history.                                   *)
(***************************************************************************)
history_entry(a) ==
    <<"--- Attempt ">> \o IntToStr(a.attempt_number) \o <<" ---\n">>
      \o (IF a.success
          THEN <<"Status: SUCCESS\n">>
          ELSE <<"Status: FAILED\n">>
                 \o (IF a.error # None
                     THEN <<"Error: ">> \o a.error[1] \o <<"\n">>
                     ELSE <<>>))
      \o (IF a.script # <<>>
          THEN <<"Script:\n">> \o a.script \o <<"\n\n">>
          ELSE <<>>)

RECURSIVE format_attempt_history(_)
format_attempt_history(log) ==
    IF log = <<>> THEN <<>>
    ELSE history_entry(Head(log)) \o format_attempt_history(Tail(log))

(***************************************************************************)
(* Inputs: what the caller, the model and the operating system supply.     *)
(***************************************************************************)
Functions == {"dynamic_parse", "dynamic_parse_with_details"}
Documents == {<<"d", "o", "c">>}
Instructions == {<<"i", "n", "s">>}

\* replies of the model (the reply may be empty text)
Scripts == {<<>>, <<"p", "y">>}

ExitStatuses == {Exited(0), Exited(1), Exited(2), Signaled(9)}
Stderrs == {<<>>, <<"e">>, <<BAD>>}

\* every output of a process with at most MaxOutLen bytes on stdout
AllOutputs ==
    {Output(st, out, err) : st \in ExitStatuses,
                            out \in SeqsUpTo(OutAlphabet, MaxOutLen),
                            err \in Stderrs}

\* the outputs the processes of a call produce: one of each kind
ProcessOutputs ==
    { Output(Exited(0), <<>>, <<>>),
      Output(Exited(0), <<"\f", " ">>, <<>>),
      Output(Exited(0), <<"1", " ">>, <<>>),
      Output(Exited(0), <<"[", "1", "]">>, <<"e">>),
      Output(Exited(0), <<"[", "1">>, <<>>),
      Output(Exited(0), <<"\f", "1">>, <<>>),
      Output(Exited(0), <<BAD>>, <<>>),
      Output(Exited(1), <<"1">>, <<"e">>),
      Output(Exited(2), <<>>, <<>>),
      Output(Exited(1), <<>>, <<BAD>>),
      Output(Signaled(9), <<"1">>, <<"e">>) }

(***************************************************************************)
(* State.                                                                  *)
(***************************************************************************)
VARIABLES
    fn,             \* which of the two public functions was called
    document,       \* argument of the call
    instructions,   \* argument of the call
    pc,             \* position of the call
    attempt,        \* loop variable of `for attempt in 1..=MAX_RETRIES`
    attempts,       \* Vec<ParseAttempt>
    user_prompt,    \* prompt of the current attempt
    python_script,  \* script of the current attempt
    exec_result,    \* None, or Some(what execute_python_script returned last)
    ret,            \* None, or Some(what the call returned)
    outcomes,       \* what the model / the process did in attempts 1, 2, ...
    modelCalls,     \* number of chat.add_message calls made
    spawns,         \* number of python3 processes spawned
    calls,          \* calls of dynamic_parse_with_details, by call id
    io              \* one execution seen at the level of pipes and tasks

vars == <<fn, document, instructions, pc, attempt, attempts, user_prompt,
          python_script, exec_result, ret, outcomes, modelCalls, spawns,
          calls, io>>

\* the state of the loop of the call under study
loopVars == <<fn, document, instructions, pc, attempt, attempts, user_prompt,
              python_script, exec_result, ret, outcomes, modelCalls, spawns>>

\* no call of the second kind, no execution at the level of pipes
NoCalls == <<>>
NoIo == [main |-> "none"]

\* what happened in one attempt, as seen from outside the program
GenerationFailed(e) == [kind |-> "generation_failed", error |-> e]
SpawnFailed(script, e) == [kind |-> "spawn_failed", script |-> script, error |-> e]
WaitFailed(script, e) == [kind |-> "wait_failed", script |-> script, error |-> e]
Ran(script, output) == [kind |-> "ran", script |-> script, output |-> output]

Init ==
    /\ fn = "none"
    /\ document = <<>>
    /\ instructions = <<>>
    /\ pc = "Idle"
    /\ attempt = 0
    /\ attempts = <<>>
    /\ user_prompt = <<>>
    /\ python_script = <<>>
    /\ exec_result = None
    /\ ret = None
    /\ outcomes = <<>>
    /\ modelCalls = 0
    /\ spawns = 0
    /\ calls = NoCalls
    /\ io = NoIo

(***************************************************************************)
(* Pieces of the retry loop.                                               *)
(***************************************************************************)
\* fault variant: the bail-out test can never be true
IsLastAttempt_Never(a) == a > MAX_RETRIES

\* fault variant: the bail-out test is off by one
IsLastAttempt_OffByOne(a) == a = MAX_RETRIES - 1

\* lines 87 and 135: attempt == MAX_RETRIES
IsLastAttempt(a) == a = MAX_RETRIES

\* line 55: the range 1..=MAX_RETRIES has a next element after a
RangeHasNext(a) == a < MAX_RETRIES

\* fault variant: the record is numbered from 0
GenerationFailureRecord_ZeroBased(a, error_msg) ==
    ParseAttempt(a - 1, <<>>, Some(error_msg), FALSE)

\* fault variant: the record keeps the script of the previous attempt
GenerationFailureRecord_StaleScript(a, error_msg) ==
    ParseAttempt(a, python_script, Some(error_msg), FALSE)

\* lines 80-85: the record of an attempt whose generation failed
GenerationFailureRecord(a, error_msg) ==
    ParseAttempt(a, <<>>, Some(error_msg), FALSE)

\* fault variant: the record of a failed execution drops the script
ExecutionFailureRecord_NoScript(a, script, error_msg) ==
    ParseAttempt(a, <<>>, Some(error_msg), FALSE)

\* lines 128-133: the record of an attempt whose execution failed
ExecutionFailureRecord(a, script, error_msg) ==
    ParseAttempt(a, script, Some(error_msg), FALSE)

\* lines 111-116: the record of the attempt that succeeded
SuccessRecord(a, script) == ParseAttempt(a, script, None, TRUE)

\* fault variant: the generation error is recorded as an empty text
generation_error_msg_Empty(e) == <<>>

\* line 77
generation_error_msg(e) == <<"Failed to generate script: ">> \o e

\* line 122
execution_error_msg(e) == <<"Script execution failed: ">> \o e

\* line 90
generation_exhausted_message(error_msg) ==
    <<"Failed to generate script after ">> \o IntToStr(MAX_RETRIES)
      \o <<" attempts. Last error: ">> \o error_msg

\* lines 138-143
all_failed_message(error_msg, log) ==
    <<"All ">> \o IntToStr(MAX_RETRIES)
      \o <<" parsing attempts failed. Final error: ">> \o error_msg
      \o <<"\n\nAll attempts:\n">> \o format_attempt_history(log)

\* lines 117 and 378: the value returned on success
success_value(f, result, log) ==
    IF f = "dynamic_parse_with_details" THEN <<result, log>> ELSE result

\* end of a loop iteration that did not return: the next element of the
\* range, or the unreachable!() after the loop (lines 55, 149)
LoopNext ==
    IF RangeHasNext(attempt)
    THEN attempt' = attempt + 1 /\ pc' = "Composing"
    ELSE attempt' = attempt /\ pc' = "Unreachable"

\* lines 119-145: execute_python_script returned Err(e)
OnExecuteErr(e) ==
    LET error_msg == execution_error_msg(e)
        log == Append(attempts,
                      ExecutionFailureRecord(attempt, python_script, error_msg))
    IN /\ attempts' = log
       /\ IF IsLastAttempt(attempt)
          THEN /\ ret' = Some(Err(all_failed_message(error_msg, log)))
               /\ pc' = "Exhausted"
               /\ attempt' = attempt
          ELSE /\ ret' = ret
               /\ LoopNext

\* fault variant: the success branch records the attempt but does not return
OnExecuteOk_NoReturn(result) ==
    /\ attempts' = Append(attempts, ParseAttempt(attempt, python_script, None, TRUE))
    /\ ret' = ret
    /\ LoopNext

\* lines 100-118: execute_python_script returned Ok(result)
OnExecuteOk(result) ==
    LET log == Append(attempts, SuccessRecord(attempt, python_script))
    IN /\ attempts' = log
       /\ ret' = Some(Ok(success_value(fn, result, log)))
       /\ pc' = "Succeeded"
       /\ attempt' = attempt

(***************************************************************************)
(* Actions.                                                                *)
(***************************************************************************)
\* lines 45-55 (309-319): the call starts; first element of the range
StartCall(f, doc, instr) ==
    /\ pc = "Idle"
    /\ fn' = f
    /\ document' = doc
    /\ instructions' = instr
    /\ attempts' = <<>>
    /\ attempt' = 1
    /\ pc' = "Composing"
    /\ UNCHANGED <<user_prompt, python_script, exec_result, ret, outcomes,
                   modelCalls, spawns>>

\* lines 59-66: build the prompt and ask the model
Compose ==
    /\ pc = "Composing"
    /\ user_prompt' = build_user_prompt(document, instructions, attempts, attempt)
    /\ modelCalls' = modelCalls + 1
    /\ pc' = "Generating"
    /\ UNCHANGED <<fn, document, instructions, attempt, attempts, python_script,
                   exec_result, ret, outcomes, spawns>>

\* lines 67-74: the model replied
GenerateOk(script) ==
    /\ pc = "Generating"
    /\ python_script' = script
    /\ pc' = "Executing"
    /\ UNCHANGED <<fn, document, instructions, attempt, attempts, user_prompt,
                   exec_result, ret, outcomes, modelCalls, spawns>>

\* lines 75-93: the model call failed
GenerateErr(e) ==
    /\ pc = "Generating"
    /\ LET error_msg == generation_error_msg(e)
           log == Append(attempts, GenerationFailureRecord(attempt, error_msg))
       IN /\ attempts' = log
          /\ IF IsLastAttempt(attempt)
             THEN /\ ret' = Some(Err(generation_exhausted_message(error_msg)))
                  /\ pc' = "Exhausted"
                  /\ attempt' = attempt
             ELSE /\ ret' = ret
                  /\ LoopNext
    /\ outcomes' = Append(outcomes, GenerationFailed(e))
    /\ UNCHANGED <<fn, document, instructions, user_prompt, python_script,
                   exec_result, modelCalls, spawns>>

\* lines 159-165: Command::spawn fails, execute_python_script returns Err
SpawnErr(e) ==
    /\ pc = "Executing"
    /\ exec_result' = Some(Err(e))
    /\ OnExecuteErr(e)
    /\ outcomes' = Append(outcomes, SpawnFailed(python_script, e))
    /\ UNCHANGED <<fn, document, instructions, user_prompt, python_script,
                   modelCalls, spawns>>

\* lines 159-179: the process is spawned, the executor waits for it
SpawnOk ==
    /\ pc = "Executing"
    /\ spawns' = spawns + 1
    /\ pc' = "Waiting"
    /\ UNCHANGED <<fn, document, instructions, attempt, attempts, user_prompt,
                   python_script, exec_result, ret, outcomes, modelCalls>>

\* line 180: wait_with_output fails, execute_python_script returns Err
WaitErr(e) ==
    /\ pc = "Waiting"
    /\ exec_result' = Some(Err(e))
    /\ OnExecuteErr(e)
    /\ outcomes' = Append(outcomes, WaitFailed(python_script, e))
    /\ UNCHANGED <<fn, document, instructions, user_prompt, python_script,
                   modelCalls, spawns>>

\* lines 180-221 and 100-145: the process ended with `output`
WaitOutput(output) ==
    /\ pc = "Waiting"
    /\ LET r == execute_python_script(python_script, output)
       IN /\ exec_result' = Some(r)
          /\ IF r.ok THEN OnExecuteOk(r.val) ELSE OnExecuteErr(r.val)
    /\ outcomes' = Append(outcomes, Ran(python_script, output))
    /\ UNCHANGED <<fn, document, instructions, user_prompt, python_script,
                   modelCalls, spawns>>

Next ==
    \/ \E f \in Functions, doc \in Documents, instr \in Instructions :
          StartCall(f, doc, instr) /\ UNCHANGED <<calls, io>>
    \/ Compose /\ UNCHANGED <<calls, io>>
    \/ \E script \in Scripts : GenerateOk(script) /\ UNCHANGED <<calls, io>>
    \/ \E e \in GenerationErrors : GenerateErr(e) /\ UNCHANGED <<calls, io>>
    \/ \E e \in SpawnErrors : SpawnErr(e) /\ UNCHANGED <<calls, io>>
    \/ SpawnOk /\ UNCHANGED <<calls, io>>
    \/ \E e \in WaitErrors : WaitErr(e) /\ UNCHANGED <<calls, io>>
    \/ \E output \in ProcessOutputs :
          WaitOutput(output) /\ UNCHANGED <<calls, io>>

Spec == Init /\ [][Next]_vars

\* every model call and every process completes
LiveSpec == Spec /\ WF_vars(Next)

(***************************************************************************)
(* The executor alone, on every output up to MaxOutLen bytes.              *)
(***************************************************************************)
ExecInit ==
    /\ fn = "none"
    /\ document \in Documents
    /\ instructions = <<>>
    /\ pc = "Waiting"
    /\ attempt = 1
    /\ attempts = <<>>
    /\ user_prompt = <<>>
    /\ python_script \in Scripts
    /\ exec_result = None
    /\ ret = None
    /\ outcomes \in {<<Ran(python_script, o)>> : o \in AllOutputs}
    /\ modelCalls = 1
    /\ spawns = 1
    /\ calls = NoCalls
    /\ io = NoIo

\* lines 180-221: the process ended, its output is classified
ExecRun ==
    /\ pc = "Waiting"
    /\ exec_result' = Some(execute_python_script(python_script,
                                                 outcomes[1].output))
    /\ pc' = "Classified"
    /\ UNCHANGED <<fn, document, instructions, attempt, attempts, user_prompt,
                   python_script, ret, outcomes, modelCalls, spawns, calls,
                   io>>

ExecNext == ExecRun

ExecSpec == ExecInit /\ [][ExecNext]_vars

(***************************************************************************)
(* One execution at the level of tasks and pipes (lines 158-180): the      *)
(* spawned process, the detached task that writes the document to its      *)
(* stdin, and wait_with_output, which reads stdout and stderr to their end *)
(* while it waits for the exit.  A pipe holds at most PipeCap bytes; a     *)
(* write to a full pipe and a read of an empty open pipe block.            *)
(***************************************************************************)
PipeCap == 1
MaxDocLen == 2
MaxProgLen == 3

\* what a script does, one step at a time, before it exits
Ops == {"read", "read_all", "out", "err"}
Programs == SeqsUpTo(Ops, MaxProgLen)
IoDocuments ==
    { SubSeq(<<"d", "o", "c", "u", "m", "e", "n", "t">>, 1, n) :
        n \in 0..MaxDocLen }

\* line 159-180: the process runs, the writer task is spawned, the executor
\* waits in wait_with_output
io_started(doc, prog) ==
    [ main |-> "waiting", doc |-> doc, prog |-> prog, ip |-> 1,
      proc |-> "running", writer |-> "running", wresult |-> "none",
      written |-> 0, stdin_buf |-> <<>>, stdin_open |-> TRUE,
      received |-> <<>>, saw_eof |-> FALSE,
      out_buf |-> <<>>, err_buf |-> <<>>, stdout |-> <<>>, stderr |-> <<>> ]

\* fault variant: the stream stays open after the write
after_write_KeepsOpen(s, ok) ==
    [s EXCEPT !.writer = "finished",
              !.wresult = IF ok THEN "ok" ELSE "err"]

\* lines 171-177: the task ends after write_all returned, Ok or Err; stdin
\* was moved into the task and is dropped with it, which closes the stream
after_write(s, ok) ==
    [s EXCEPT !.writer = "finished",
              !.wresult = IF ok THEN "ok" ELSE "err",
              !.stdin_open = FALSE]

\* fault variant: the document is written before the wait starts
WaitingForOutput_AfterWrite ==
    io.main = "waiting" /\ io.writer = "finished"

\* lines 171-180: the write runs in its own task, so the executor is in
\* wait_with_output as soon as the task is spawned
WaitingForOutput == io.main = "waiting"

\* fault variant: only the exit is awaited
OutputComplete_ExitOnly == io.proc = "exited"

\* line 180: wait_with_output completes when the process has exited and
\* both streams were read to their end
OutputComplete ==
    io.proc = "exited" /\ io.out_buf = <<>> /\ io.err_buf = <<>>

CurrentOp ==
    IF io.proc = "running" /\ io.ip <= Len(io.prog)
    THEN io.prog[io.ip] ELSE "none"

IoInit ==
    /\ fn = "none"
    /\ document \in IoDocuments
    /\ instructions = <<>>
    /\ pc = "Waiting"
    /\ attempt = 1
    /\ attempts = <<>>
    /\ user_prompt = <<>>
    /\ python_script = <<"p", "y">>
    /\ exec_result = None
    /\ ret = None
    /\ outcomes = <<>>
    /\ modelCalls = 1
    /\ spawns = 1
    /\ calls = NoCalls
    /\ io \in {io_started(document, prog) : prog \in Programs}

\* line 172: write_all hands the next byte to the pipe
WriterWrite ==
    /\ io.main # "none"
    /\ io.writer = "running"
    /\ io.written < Len(io.doc)
    /\ io.proc = "running"
    /\ Len(io.stdin_buf) < PipeCap
    /\ io' = [io EXCEPT !.written = @ + 1,
                        !.stdin_buf = Append(@, io.doc[io.written + 1])]
    /\ UNCHANGED <<loopVars, calls>>

\* lines 172-173: the process is gone, write_all returns Err
WriterFail ==
    /\ io.main # "none"
    /\ io.writer = "running"
    /\ io.written < Len(io.doc)
    /\ io.proc = "exited"
    /\ io' = after_write(io, FALSE)
    /\ UNCHANGED <<loopVars, calls>>

\* lines 172-176: the whole document was handed over, write_all returns Ok
WriterDone ==
    /\ io.main # "none"
    /\ io.writer = "running"
    /\ io.written = Len(io.doc)
    /\ io' = after_write(io, TRUE)
    /\ UNCHANGED <<loopVars, calls>>

\* the script reads one byte of its stdin, or sees its end
ProcRead ==
    /\ CurrentOp = "read"
    /\ \/ /\ io.stdin_buf # <<>>
          /\ io' = [io EXCEPT !.received = Append(@, Head(io.stdin_buf)),
                              !.stdin_buf = Tail(@),
                              !.ip = @ + 1]
       \/ /\ io.stdin_buf = <<>>
          /\ ~io.stdin_open
          /\ io' = [io EXCEPT !.saw_eof = TRUE, !.ip = @ + 1]
    /\ UNCHANGED <<loopVars, calls>>

\* the script reads its stdin to the end
ProcReadAll ==
    /\ CurrentOp = "read_all"
    /\ \/ /\ io.stdin_buf # <<>>
          /\ io' = [io EXCEPT !.received = Append(@, Head(io.stdin_buf)),
                              !.stdin_buf = Tail(@)]
       \/ /\ io.stdin_buf = <<>>
          /\ ~io.stdin_open
          /\ io' = [io EXCEPT !.saw_eof = TRUE, !.ip = @ + 1]
    /\ UNCHANGED <<loopVars, calls>>

\* the script writes one byte to its stdout
ProcOut ==
    /\ CurrentOp = "out"
    /\ Len(io.out_buf) < PipeCap
    /\ io' = [io EXCEPT !.out_buf = Append(@, "1"), !.ip = @ + 1]
    /\ UNCHANGED <<loopVars, calls>>

\* the script writes one byte to its stderr
ProcErr ==
    /\ CurrentOp = "err"
    /\ Len(io.err_buf) < PipeCap
    /\ io' = [io EXCEPT !.err_buf = Append(@, "e"), !.ip = @ + 1]
    /\ UNCHANGED <<loopVars, calls>>

\* the script ends: its ends of the pipes close, unread input is discarded
ProcExit ==
    /\ io.main # "none"
    /\ io.proc = "running"
    /\ io.ip > Len(io.prog)
    /\ io' = [io EXCEPT !.proc = "exited", !.stdin_buf = <<>>]
    /\ UNCHANGED <<loopVars, calls>>

\* line 180: wait_with_output reads a byte of stdout
DrainOut ==
    /\ WaitingForOutput
    /\ io.out_buf # <<>>
    /\ io' = [io EXCEPT !.stdout = Append(@, Head(io.out_buf)),
                        !.out_buf = Tail(@)]
    /\ UNCHANGED <<loopVars, calls>>

\* line 180: wait_with_output reads a byte of stderr
DrainErr ==
    /\ WaitingForOutput
    /\ io.err_buf # <<>>
    /\ io' = [io EXCEPT !.stderr = Append(@, Head(io.err_buf)),
                        !.err_buf = Tail(@)]
    /\ UNCHANGED <<loopVars, calls>>

\* lines 180-221: wait_with_output returns, the output is classified
IoReturn ==
    /\ WaitingForOutput
    /\ OutputComplete
    /\ io' = [io EXCEPT !.main = "returned"]
    /\ exec_result' = Some(execute_python_script(python_script,
                             Output(Exited(0), io.stdout, io.stderr)))
    /\ pc' = "Classified"
    /\ UNCHANGED <<fn, document, instructions, attempt, attempts, user_prompt,
                   python_script, ret, outcomes, modelCalls, spawns, calls>>

IoNext ==
    \/ WriterWrite
    \/ WriterFail
    \/ WriterDone
    \/ ProcRead
    \/ ProcReadAll
    \/ ProcOut
    \/ ProcErr
    \/ ProcExit
    \/ DrainOut
    \/ DrainErr
    \/ IoReturn

IoSpec == IoInit /\ [][IoNext]_vars

\* every task and the process are scheduled
IoLiveSpec == IoSpec /\ WF_vars(IoNext)

(***************************************************************************)
(* dynamic_parse_with_details (lines 309-411), as a function from the      *)
(* state of one call and the next event (the call itself, a reply of the   *)
(* model, the outcome of a process) to the next state of the call.  The    *)
(* state of a call is its arguments and locals.                            *)
(***************************************************************************)
\* lines 224-240
get_system_prompt == <<"<system prompt>">>

Message(role, content) == [role |-> role, content |-> content]

\* fault variant: the session is created without the system prompt
new_chat_NoSystemPrompt == <<>>

\* the call returned: its chat session, a local, is dropped
no_chat == <<>>

\* whether the session still holds the prompt after add_message returned
\* Err is decided by the chat library: both outcomes are possible
PromptKept == BOOLEAN

\* line 312: a new chat session with the system prompt
new_chat == <<Message("system", get_system_prompt)>>

\* the events a call reacts to
StartEv(doc, instr) == [kind |-> "start", doc |-> doc, instr |-> instr]
ComposeEv == [kind |-> "compose"]
ReplyEv(script) == [kind |-> "reply", script |-> script]
ReplyErrEv(e, kept) == [kind |-> "reply_err", error |-> e, kept |-> kept]
SpawnErrEv(e) == [kind |-> "spawn_err", error |-> e]
SpawnedEv == [kind |-> "spawned"]
WaitErrEv(e) == [kind |-> "wait_err", error |-> e]
OutputEv(output) == [kind |-> "output", output |-> output]

\* before line 309: no call yet
details_new ==
    [ pc |-> "Idle", document |-> <<>>, instructions |-> <<>>, attempt |-> 0,
      attempts |-> <<>>, chat |-> <<>>, user_prompt |-> <<>>,
      python_script |-> <<>>, ret |-> None, modelCalls |-> 0, spawns |-> 0,
      trace |-> <<>> ]

\* fault variant: the detailed variant allows one attempt more
details_is_last_OneMore(a) == a = MAX_RETRIES + 1

\* lines 348 and 396: attempt == MAX_RETRIES
details_is_last(a) == a = MAX_RETRIES

\* line 378: Ok((result, attempts))
details_success_value(result, log) == <<result, log>>

\* lines 315 and 411: the next element of 1..=MAX_RETRIES, or unreachable!()
details_loop_next(s) ==
    IF s.attempt < MAX_RETRIES
    THEN [s EXCEPT !.attempt = @ + 1, !.pc = "Composing"]
    ELSE [s EXCEPT !.pc = "Unreachable"]

\* lines 309-315
details_start(s, doc, instr) ==
    [s EXCEPT !.document = doc, !.instructions = instr, !.chat = new_chat,
              !.attempts = <<>>, !.attempt = 1, !.pc = "Composing"]

\* lines 318-322: build the prompt and send it in the chat session
details_compose(s) ==
    LET prompt == build_user_prompt(s.document, s.instructions, s.attempts,
                                    s.attempt)
    IN [s EXCEPT !.user_prompt = prompt,
                 !.chat = Append(@, Message("user", prompt)),
                 !.modelCalls = @ + 1,
                 !.pc = "Generating"]

\* lines 323-328: the model replied
details_reply(s, script) ==
    [s EXCEPT !.python_script = script,
              !.chat = Append(@, Message("assistant", script)),
              !.pc = "Executing"]

\* lines 329-354: the model call failed
details_reply_err(s, e, kept) ==
    LET error_msg == <<"Failed to generate script: ">> \o e
        log == Append(s.attempts,
                      ParseAttempt(s.attempt, <<>>, Some(error_msg), FALSE))
        t == [s EXCEPT !.attempts = log,
                       !.chat = IF kept THEN @
                                ELSE SubSeq(@, 1, Len(@) - 1)]
    IN IF details_is_last(s.attempt)
       THEN [t EXCEPT !.pc = "Exhausted",
                      !.chat = no_chat,
                      !.ret = Some(Err(
                          <<"Failed to generate script after ">>
                            \o IntToStr(MAX_RETRIES)
                            \o <<" attempts. Last error: ">> \o error_msg))]
       ELSE details_loop_next(t)

\* lines 380-406: execute_python_script returned Err(e)
details_execute_err(s, e) ==
    LET error_msg == <<"Script execution failed: ">> \o e
        log == Append(s.attempts,
                      ParseAttempt(s.attempt, s.python_script, Some(error_msg),
                                   FALSE))
        t == [s EXCEPT !.attempts = log]
    IN IF details_is_last(s.attempt)
       THEN [t EXCEPT !.pc = "Exhausted",
                      !.chat = no_chat,
                      !.ret = Some(Err(
                          <<"All ">> \o IntToStr(MAX_RETRIES)
                            \o <<" parsing attempts failed. Final error: ">>
                            \o error_msg \o <<"\n\nAll attempts:\n">>
                            \o format_attempt_history(log)))]
       ELSE details_loop_next(t)

\* lines 361-379: execute_python_script returned Ok(result)
details_execute_ok(s, result) ==
    LET log == Append(s.attempts,
                      ParseAttempt(s.attempt, s.python_script, None, TRUE))
    IN [s EXCEPT !.attempts = log,
                 !.chat = no_chat,
                 !.ret = Some(Ok(details_success_value(result, log))),
                 !.pc = "Succeeded"]

\* line 360 with lines 159-179: the process is spawned
details_spawned(s) == [s EXCEPT !.spawns = @ + 1, !.pc = "Waiting"]

\* line 360 with lines 180-221: the process ended with `output`
details_output(s, output) ==
    LET r == execute_python_script(s.python_script, output)
    IN IF r.ok THEN details_execute_ok(s, r.val)
       ELSE details_execute_err(s, r.val)

\* the events a call can react to where it is
details_awaits(s) ==
    CASE s.pc = "Idle" -> {"start"}
      [] s.pc = "Composing" -> {"compose"}
      [] s.pc = "Generating" -> {"reply", "reply_err"}
      [] s.pc = "Executing" -> {"spawned", "spawn_err"}
      [] s.pc = "Waiting" -> {"output", "wait_err"}
      [] OTHER -> {}

\* lines 309-411: one step of the call
details_step(s, ev) ==
    IF ev.kind \notin details_awaits(s) THEN s
    ELSE CASE ev.kind = "start" -> details_start(s, ev.doc, ev.instr)
           [] ev.kind = "compose" -> details_compose(s)
           [] ev.kind = "reply" -> details_reply(s, ev.script)
           [] ev.kind = "reply_err" ->
                details_reply_err(s, ev.error, ev.kept)
           [] ev.kind = "spawned" -> details_spawned(s)
           [] ev.kind = "spawn_err" -> details_execute_err(s, ev.error)
           [] ev.kind = "wait_err" -> details_execute_err(s, ev.error)
           [] ev.kind = "output" -> details_output(s, ev.output)

\* one step, with the event added to the history of the call
Apply(s, ev) == [details_step(s, ev) EXCEPT !.trace = Append(s.trace, ev)]

(***************************************************************************)
(* Calls of dynamic_parse_with_details on one ParserClient.  The log and   *)
(* the chat session of a call are locals (lines 312-313): the cell that    *)
(* holds them belongs to the call.                                         *)
(***************************************************************************)
CallIds == {1, 2}

\* fault variant: one log, kept in the client
AttemptsOwner_Shared(c) == 1

\* line 313 (53): `let mut attempts = Vec::new()`, one per call
AttemptsOwner(c) == c

\* fault variant: one chat session, kept in the client
ChatOwner_Shared(c) == 1

\* line 312 (52): `self.model.chat()`, a new session per call
ChatOwner(c) == c

\* the state call c sees
View(c) ==
    [calls[c] EXCEPT !.attempts = calls[AttemptsOwner(c)].attempts,
                     !.chat = calls[ChatOwner(c)].chat]

\* call c moved to state s
Store(c, s) ==
    LET own == [calls EXCEPT ![c] = [s EXCEPT !.attempts = calls[c].attempts,
                                              !.chat = calls[c].chat]]
        logged == [own EXCEPT ![AttemptsOwner(c)].attempts = s.attempts]
    IN [logged EXCEPT ![ChatOwner(c)].chat = s.chat]

Deliver(c, ev) == calls' = Store(c, Apply(View(c), ev))

(***************************************************************************)
(* dynamic_parse and dynamic_parse_with_details side by side, given the    *)
(* same replies of the model and the same outcomes of the processes.       *)
(***************************************************************************)
PairInit ==
    /\ fn = "none"
    /\ document = <<>>
    /\ instructions = <<>>
    /\ pc = "Idle"
    /\ attempt = 0
    /\ attempts = <<>>
    /\ user_prompt = <<>>
    /\ python_script = <<>>
    /\ exec_result = None
    /\ ret = None
    /\ outcomes = <<>>
    /\ modelCalls = 0
    /\ spawns = 0
    /\ calls = <<details_new>>
    /\ io = NoIo

PairStart(doc, instr) ==
    /\ StartCall("dynamic_parse", doc, instr)
    /\ Deliver(1, StartEv(doc, instr))
    /\ UNCHANGED io

PairCompose == Compose /\ Deliver(1, ComposeEv) /\ UNCHANGED io

PairGenerateOk(script) ==
    GenerateOk(script) /\ Deliver(1, ReplyEv(script)) /\ UNCHANGED io

PairGenerateErr(e, kept) ==
    GenerateErr(e) /\ Deliver(1, ReplyErrEv(e, kept)) /\ UNCHANGED io

PairSpawnErr(e) == SpawnErr(e) /\ Deliver(1, SpawnErrEv(e)) /\ UNCHANGED io

PairSpawnOk == SpawnOk /\ Deliver(1, SpawnedEv) /\ UNCHANGED io

PairWaitErr(e) == WaitErr(e) /\ Deliver(1, WaitErrEv(e)) /\ UNCHANGED io

PairWaitOutput(output) ==
    WaitOutput(output) /\ Deliver(1, OutputEv(output)) /\ UNCHANGED io

PairNext ==
    \/ \E doc \in Documents, instr \in Instructions : PairStart(doc, instr)
    \/ PairCompose
    \/ \E script \in Scripts : PairGenerateOk(script)
    \/ \E e \in GenerationErrors, kept \in PromptKept :
          PairGenerateErr(e, kept)
    \/ \E e \in SpawnErrors : PairSpawnErr(e)
    \/ PairSpawnOk
    \/ \E e \in WaitErrors : PairWaitErr(e)
    \/ \E output \in ProcessOutputs : PairWaitOutput(output)

PairSpec == PairInit /\ [][PairNext]_vars

(***************************************************************************)
(* Two calls on one client, their steps interleaved.                       *)
(***************************************************************************)
\* the arguments of call c, and what the model and the processes of call c
\* may answer
ConcDocument(c) == <<"d", NatToStr(c)[1]>>
ConcInstructions(c) == <<"i">>
ConcScripts(c) == {<<"p", NatToStr(c)[1]>>}
ConcOutputs ==
    { Output(Exited(0), <<"[", "1", "]">>, <<>>),
      Output(Exited(1), <<>>, <<"e">>) }

ConcInit ==
    /\ fn = "none"
    /\ document = <<>>
    /\ instructions = <<>>
    /\ pc = "Idle"
    /\ attempt = 0
    /\ attempts = <<>>
    /\ user_prompt = <<>>
    /\ python_script = <<>>
    /\ exec_result = None
    /\ ret = None
    /\ outcomes = <<>>
    /\ modelCalls = 0
    /\ spawns = 0
    /\ calls = [c \in CallIds |-> details_new]
    /\ io = NoIo

\* call c takes the step that event ev allows
ConcStep(c, ev) ==
    /\ ev.kind \in details_awaits(View(c))
    /\ Deliver(c, ev)
    /\ UNCHANGED <<loopVars, io>>

ConcStart(c) == ConcStep(c, StartEv(ConcDocument(c), ConcInstructions(c)))
ConcCompose(c) == ConcStep(c, ComposeEv)
ConcGenerateOk(c, script) == ConcStep(c, ReplyEv(script))
ConcGenerateErr(c, e, kept) == ConcStep(c, ReplyErrEv(e, kept))
ConcSpawnErr(c, e) == ConcStep(c, SpawnErrEv(e))
ConcSpawnOk(c) == ConcStep(c, SpawnedEv)
ConcWaitErr(c, e) == ConcStep(c, WaitErrEv(e))
ConcWaitOutput(c, output) == ConcStep(c, OutputEv(output))

ConcNext ==
    \E c \in CallIds :
        \/ ConcStart(c)
        \/ ConcCompose(c)
        \/ \E script \in ConcScripts(c) : ConcGenerateOk(c, script)
        \/ \E e \in GenerationErrors, kept \in PromptKept :
              ConcGenerateErr(c, e, kept)
        \/ \E e \in SpawnErrors : ConcSpawnErr(c, e)
        \/ ConcSpawnOk(c)
        \/ \E e \in WaitErrors : ConcWaitErr(c, e)
        \/ \E output \in ConcOutputs : ConcWaitOutput(c, output)

ConcSpec == ConcInit /\ [][ConcNext]_vars

(***************************************************************************)
(* Vocabulary of the properties.                                           *)
(***************************************************************************)
Last(seq) == seq[Len(seq)]

Returned == ret # None
ReturnedOk == ret # None /\ ret[1].ok
ReturnedErr == ret # None /\ ~ret[1].ok

\* the JSON text of a successful return
ReturnedText ==
    IF fn = "dynamic_parse_with_details" THEN ret[1].val[1] ELSE ret[1].val

InLoop == pc \in {"Composing", "Generating", "Executing", "Waiting"}

SuccessIndexes == {i \in 1..Len(attempts) : attempts[i].success}

\* the process of outcome o ran and ended with a status other than exit code 0
EndedUnsuccessfully(o) == o.kind = "ran" /\ o.output.status # Exited(0)

\* the process of outcome o exited with code 0 and a blank standard output
EmptyOutput(o) ==
    /\ o.kind = "ran"
    /\ o.output.status = Exited(0)
    /\ \A k \in 1..Len(o.output.stdout) : o.output.stdout[k] \in RustWhitespace

\* the process of outcome o exited with code 0, its output is not JSON
InvalidOutput(o) ==
    /\ o.kind = "ran"
    /\ o.output.status = Exited(0)
    /\ ~EmptyOutput(o)
    /\ ~serde_json_from_str_ok(o.output.stdout)

\* the four failures of an attempt that the specification names
NamedFailure(o) ==
    \/ o.kind = "generation_failed"
    \/ EndedUnsuccessfully(o)
    \/ EmptyOutput(o)
    \/ InvalidOutput(o)

\* an error of the I/O layer: spawn, wait, or decoding the captured bytes
IoError(o) ==
    \/ o.kind \in {"spawn_failed", "wait_failed"}
    \/ /\ o.kind = "ran"
       /\ IF o.output.status = Exited(0)
          THEN ~from_utf8_ok(o.output.stdout)
          ELSE ~from_utf8_ok(o.output.stderr)

IoErrorText(o) == IF o.kind = "ran" THEN FromUtf8Error ELSE o.error

(***************************************************************************)
(* C1: if the call returns Ok(text), text is the standard output of a      *)
(* script run in that call whose process exited with success status, and   *)
(* text is non-blank after trimming and parses as one JSON value.          *)
(***************************************************************************)
C1_OkIsValidatedOutput ==
    ReturnedOk =>
        /\ \E i \in 1..Len(outcomes) :
              /\ outcomes[i].kind = "ran"
              /\ outcomes[i].output.stdout = ReturnedText
              /\ outcomes[i].output.status = Exited(0)
        /\ \E k \in 1..Len(ReturnedText) : ReturnedText[k] \notin RustWhitespace
        /\ from_utf8_ok(ReturnedText)
        /\ serde_json_from_str_ok(ReturnedText)
        /\ serde_json_from_str_ok(trim(ReturnedText))

\* a call returning, on its third attempt, JSON followed by whitespace
C1_Witness ==
    /\ ReturnedOk
    /\ Len(attempts) = MAX_RETRIES
    /\ ReturnedText = <<"1", " ">>

(***************************************************************************)
(* C2: the log holds at most one record with success = true; when there    *)
(* is one it is the last record and no attempt is started after it.        *)
(***************************************************************************)
C2_OneSuccessLast ==
    /\ Cardinality(SuccessIndexes) <= 1
    /\ SuccessIndexes # {} =>
          /\ SuccessIndexes = {Len(attempts)}
          /\ pc = "Succeeded"
          /\ modelCalls = Len(attempts)
          /\ Len(outcomes) = Len(attempts)
          /\ ~ENABLED Next

C2_Witness ==
    /\ SuccessIndexes # {}
    /\ Len(attempts) = 2
    /\ ~attempts[1].success

(***************************************************************************)
(* C3: the attempt numbers of the log are 1, 2, ..., k in order, with      *)
(* k <= MAX_RETRIES, and every loop iteration, whatever its branch,        *)
(* appends exactly one record.                                             *)
(***************************************************************************)
C3_ContiguousNumbers ==
    /\ Len(attempts) <= MAX_RETRIES
    /\ \A i \in 1..Len(attempts) : attempts[i].attempt_number = i
    \* one record per iteration that has ended
    /\ Len(attempts) = Len(outcomes)
    /\ InLoop => Len(attempts) = attempt - 1
    /\ pc \in {"Succeeded", "Exhausted"} => Len(attempts) = attempt

\* one iteration of each branch: generation failure, execution failure, success
C3_Witness ==
    /\ Len(attempts) = 3
    /\ outcomes[1].kind = "generation_failed"
    /\ outcomes[2].kind = "ran" /\ ~attempts[2].success
    /\ outcomes[3].kind = "ran" /\ attempts[3].success

(***************************************************************************)
(* C4: every call ends in Succeeded or Exhausted; it stops at the first    *)
(* success, otherwise after attempt MAX_RETRIES; the attempt counter is    *)
(* incremented only while below the maximum; the model is asked at most    *)
(* MAX_RETRIES times; the unreachable!() after the loop is never reached.  *)
(***************************************************************************)
C4_Terminates ==
    /\ [](pc # "Unreachable" /\ modelCalls <= MAX_RETRIES)
    /\ [](pc = "Succeeded" =>
            /\ Last(attempts).success
            /\ \A i \in 1..(Len(attempts) - 1) : ~attempts[i].success)
    /\ [](pc = "Exhausted" =>
            /\ attempt = MAX_RETRIES
            /\ Len(attempts) = MAX_RETRIES
            /\ \A i \in 1..Len(attempts) : ~attempts[i].success)
    /\ [][attempt' # attempt =>
            /\ attempt < MAX_RETRIES
            /\ attempt' = attempt + 1
            /\ (attempt > 0 => ~Last(attempts').success)]_vars
    /\ (pc = "Composing" ~> pc \in {"Succeeded", "Exhausted"})

\* the call that uses the whole budget
C4_Witness == pc = "Exhausted" /\ modelCalls = MAX_RETRIES

(***************************************************************************)
(* C5: a generation failure, non-zero exit, empty output or invalid JSON   *)
(* on an attempt below the maximum is not returned: a failure record is    *)
(* appended and the next attempt starts.  The caller gets an error only in *)
(* Exhausted, when the log holds MAX_RETRIES records that are all failures.*)
(***************************************************************************)
C5_ErrorOnlyWhenExhausted ==
    /\ [](ReturnedErr =>
            /\ pc = "Exhausted"
            /\ Len(attempts) = MAX_RETRIES
            /\ \A i \in 1..Len(attempts) : ~attempts[i].success)
    /\ [][(/\ Len(outcomes') = Len(outcomes) + 1
           /\ NamedFailure(Last(outcomes'))
           /\ attempt < MAX_RETRIES)
          => (/\ ret' = None
              /\ Len(attempts') = Len(attempts) + 1
              /\ ~Last(attempts').success
              /\ Last(attempts').error # None
              /\ attempt' = attempt + 1
              /\ pc' = "Composing")]_vars

\* the four named failures, each below the maximum or recovered from
C5_Witness ==
    /\ ReturnedErr
    /\ outcomes[1].kind = "generation_failed"
    /\ EndedUnsuccessfully(outcomes[2])
    /\ InvalidOutput(outcomes[3])

(***************************************************************************)
(* C6: whenever a call ends in Exhausted, whatever the kind of the last    *)
(* failure, the returned error contains the final error message and the    *)
(* rendered transcript of every record of the log.                         *)
(***************************************************************************)
C6_ExhaustedCarriesTranscript ==
    pc = "Exhausted" =>
        /\ ReturnedErr
        /\ Contains(ret[1].val, Last(attempts).error[1])
        /\ Contains(ret[1].val, format_attempt_history(attempts))
        /\ \A i \in 1..Len(attempts) :
              Contains(ret[1].val, history_entry(attempts[i]))

(***************************************************************************)
(* C7 as stated: an error of the I/O layer during an attempt propagates to *)
(* the caller at once; no record is appended for it and no further attempt *)
(* is started.                                                             *)
(***************************************************************************)
C7_IoErrorPropagates ==
    \A i \in 1..Len(outcomes) :
        IoError(outcomes[i]) =>
            /\ Len(attempts) = i - 1
            /\ Len(outcomes) = i
            /\ ReturnedErr

(***************************************************************************)
(* C7 amended: an error of the I/O layer is returned by the executor and   *)
(* handled by the retry loop as any execution failure: a failure record    *)
(* with the script and "Script execution failed: <error>" is appended, and *)
(* the next attempt starts unless the attempt was number MAX_RETRIES, when *)
(* the call fails with the exhaustion error.                               *)
(***************************************************************************)
C7_IoErrorIsRetried ==
    \A i \in 1..Len(outcomes) :
        IoError(outcomes[i]) =>
            /\ i <= Len(attempts)
            /\ attempts[i] =
                  [attempt_number |-> i,
                   script |-> outcomes[i].script,
                   error |-> Some(<<"Script execution failed: ">>
                                    \o IoErrorText(outcomes[i])),
                   success |-> FALSE]
            /\ (i < MAX_RETRIES /\ i = Len(outcomes)) =>
                  /\ ret = None
                  /\ attempt = i + 1
                  /\ InLoop
            /\ i = MAX_RETRIES =>
                  /\ pc = "Exhausted"
                  /\ ReturnedErr
                  /\ Contains(ret[1].val, IoErrorText(outcomes[i]))

\* a spawn failure and a decoding failure, each followed by another attempt
C7_Witness ==
    /\ Len(outcomes) = 3
    /\ outcomes[1].kind = "spawn_failed"
    /\ outcomes[1].script # <<>>
    /\ outcomes[2].kind = "ran" /\ IoError(outcomes[2])
    /\ ReturnedOk

(***************************************************************************)
(* C8: if script generation fails on every attempt, the call returns the   *)
(* exhaustion error after exactly 3 model calls, with a log of 3 records,  *)
(* each with success = false, a non-empty error and an empty script, and   *)
(* no process was spawned.                                                 *)
(***************************************************************************)
\* every attempt so far ended with a generation failure, none has a script
AllGenerationsFailed ==
    /\ outcomes # <<>>
    /\ \A i \in 1..Len(outcomes) : outcomes[i].kind = "generation_failed"
    /\ pc \notin {"Executing", "Waiting"}

C8_AllGenerationsFail ==
    AllGenerationsFailed =>
        /\ spawns = 0
        /\ Len(attempts) = Len(outcomes)
        /\ \A i \in 1..Len(attempts) :
              /\ ~attempts[i].success
              /\ attempts[i].error # None
              /\ attempts[i].error[1] # <<>>
              /\ attempts[i].script = <<>>
        /\ Len(outcomes) < 3 => ret = None /\ InLoop
        /\ Len(outcomes) >= 3 =>
              /\ Len(attempts) = 3
              /\ modelCalls = 3
              /\ pc = "Exhausted"
              /\ ReturnedErr
              /\ ~ENABLED Next

C8_Witness == AllGenerationsFailed /\ Returned

(***************************************************************************)
(* C9: if the process ends with any status other than exit code 0, a       *)
(* signal included, the executor reports a failure whatever the process    *)
(* wrote on standard output, well-formed JSON included.                    *)
(***************************************************************************)
C9_NonZeroStatusFails ==
    (exec_result # None /\ outcomes[1].output.status # Exited(0))
        => ~exec_result[1].ok

\* a process killed by a signal after it wrote well-formed JSON
C9_Witness ==
    /\ exec_result # None
    /\ outcomes[1].output.status = Signaled(9)
    /\ outcomes[1].output.stdout = <<"[", "1", "]">>
    /\ outcomes[1].output.stderr = <<>>

(***************************************************************************)
(* C10 as stated: for every attempt whose process exits non-zero, the      *)
(* error of the attempt's record contains the exit code and the text       *)
(* written to standard error.                                              *)
(***************************************************************************)
ExitedNonZero(o) ==
    o.kind = "ran" /\ o.output.status.exited /\ o.output.status.code # 0

C10_ErrorHasCodeAndStderr ==
    \A i \in 1..Len(attempts) :
        ExitedNonZero(outcomes[i]) =>
            /\ attempts[i].error # None
            /\ Contains(attempts[i].error[1],
                        IntToStr(outcomes[i].output.status.code))
            /\ Contains(attempts[i].error[1], outcomes[i].output.stderr)

(***************************************************************************)
(* C10 amended: for every attempt whose process exits non-zero and whose   *)
(* captured standard error is valid UTF-8, the error of the attempt's      *)
(* record contains the exit code and the standard-error text; when the     *)
(* standard error is not valid UTF-8 the error is the decoding error.      *)
(***************************************************************************)
C10_ErrorHasCodeAndDecodedStderr ==
    \A i \in 1..Len(attempts) :
        ExitedNonZero(outcomes[i]) =>
            /\ attempts[i].error # None
            /\ IF from_utf8_ok(outcomes[i].output.stderr)
               THEN Contains(attempts[i].error[1],
                       <<"Python script execution failed with exit code: ">>
                         \o IntToStr(outcomes[i].output.status.code)
                         \o <<"\nSTDERR: ">> \o outcomes[i].output.stderr
                         \o <<"\nSCRIPT:\n">>)
               ELSE attempts[i].error[1] =
                       <<"Script execution failed: ">> \o FromUtf8Error

\* an exit with code 1 and text on standard error, recorded
C10_Witness ==
    \E i \in 1..Len(attempts) :
        /\ ExitedNonZero(outcomes[i])
        /\ outcomes[i].output.status.code = 1
        /\ outcomes[i].output.stderr = <<"e">>

(***************************************************************************)
(* C11: if the process exits with code 0 and its standard output is empty  *)
(* or only whitespace, the executor reports the empty-output failure (not  *)
(* success, not the invalid-JSON failure) and the orchestrator records a   *)
(* failed attempt.                                                         *)
(***************************************************************************)
C11_BlankOutputIsEmptyOutput ==
    \A i \in 1..Len(outcomes) :
        EmptyOutput(outcomes[i]) =>
            /\ i <= Len(attempts)
            /\ attempts[i] =
                  [attempt_number |-> i,
                   script |-> outcomes[i].script,
                   error |-> Some(<<"Script execution failed: ",
                       "Script executed successfully but produced no output">>),
                   success |-> FALSE]
            /\ i = Len(outcomes) =>
                  /\ exec_result = Some(Err(
                       <<"Script executed successfully but produced no output">>))
                  /\ ~ReturnedOk

\* an output of whitespace only, recorded
C11_Witness ==
    \E i \in 1..Len(attempts) :
        EmptyOutput(outcomes[i]) /\ outcomes[i].output.stdout = <<"\f", " ">>

(***************************************************************************)
(* C12 as stated: if the process exits with code 0 and its standard output *)
(* is non-blank but does not parse as JSON, the executor reports the       *)
(* invalid-output failure whose diagnostic contains the parse error and    *)
(* the raw output, and the raw output is never returned as the result.     *)
(***************************************************************************)
C12_InvalidOutputDiagnostic ==
    \A i \in 1..Len(outcomes) :
        InvalidOutput(outcomes[i]) =>
            /\ i <= Len(attempts)
            /\ ~attempts[i].success
            /\ Contains(attempts[i].error[1], serde_json_error)
            /\ Contains(attempts[i].error[1], outcomes[i].output.stdout)
            /\ ReturnedOk => ReturnedText # outcomes[i].output.stdout

(***************************************************************************)
(* C12 amended: if the process exits with code 0 and its standard output   *)
(* is valid UTF-8, non-blank and does not parse as JSON, the executor      *)
(* reports the invalid-output failure whose diagnostic contains the parse  *)
(* error and the raw output; if the output is not valid UTF-8 the failure  *)
(* is the decoding error; in both cases the raw output is never returned   *)
(* as the result of the call.                                              *)
(***************************************************************************)
C12_DecodedInvalidOutputDiagnostic ==
    \A i \in 1..Len(outcomes) :
        InvalidOutput(outcomes[i]) =>
            /\ i <= Len(attempts)
            /\ ~attempts[i].success
            /\ attempts[i].error # None
            /\ IF from_utf8_ok(outcomes[i].output.stdout)
               THEN Contains(attempts[i].error[1],
                       <<"Script output is not valid JSON: ">>
                         \o serde_json_error \o <<"\nOutput was: ">>
                         \o outcomes[i].output.stdout)
               ELSE attempts[i].error[1] =
                       <<"Script execution failed: ">> \o FromUtf8Error
            /\ ReturnedOk => ReturnedText # outcomes[i].output.stdout

\* a truncated array, and a number after a form feed, both recorded
C12_Witness ==
    /\ Len(attempts) >= 2
    /\ InvalidOutput(outcomes[1])
    /\ outcomes[1].output.stdout = <<"[", "1">>
    /\ InvalidOutput(outcomes[2])
    /\ outcomes[2].output.stdout = <<"\f", "1">>

(***************************************************************************)
(* C13: the user prompt built for attempt k contains, for every failed     *)
(* attempt 1..k-1, the literal text of its recorded error and, when that   *)
(* attempt produced a script, the literal text of the script.              *)
(***************************************************************************)
\* user_prompt is the prompt of the current attempt
PromptBuilt == pc \notin {"Idle", "Composing"}

C13_PromptCarriesFailures ==
    PromptBuilt =>
        \A i \in 1..(attempt - 1) :
            /\ i <= Len(attempts)
            /\ attempts[i].error # None
            /\ Contains(user_prompt, attempts[i].error[1])
            /\ Contains(user_prompt, attempts[i].script)
            /\ attempts[i].script # <<>> =>
                  Contains(user_prompt,
                      <<"FAILED - ">> \o attempts[i].error[1]
                        \o <<"\n", "Script that failed:\n", FENCE, "python\n">>
                        \o attempts[i].script \o <<"\n", FENCE, "\n\n">>)

\* the prompt of attempt 3 after an empty output of a script and a
\* generation failure
C13_Witness ==
    /\ pc = "Generating"
    /\ attempt = 3
    /\ EmptyOutput(outcomes[1]) /\ attempts[1].script = <<"p", "y">>
    /\ outcomes[2].kind = "generation_failed"

(***************************************************************************)
(* C18: a script is executed only after the model returned a script in the *)
(* same attempt.  When generation fails, no process is spawned in that     *)
(* attempt, the record has an empty script, success = false and the        *)
(* generation error, and the model is not asked again in that attempt.     *)
(***************************************************************************)
CountKind(kinds) ==
    Cardinality({i \in 1..Len(outcomes) : outcomes[i].kind \in kinds})

C18_GenerateBeforeExecute ==
    /\ \A i \in 1..Len(outcomes) :
          outcomes[i].kind = "generation_failed" =>
              attempts[i] =
                  [attempt_number |-> i,
                   script |-> <<>>,
                   error |-> Some(<<"Failed to generate script: ">>
                                    \o outcomes[i].error),
                   success |-> FALSE]
    \* one model call per attempt, the current one included
    /\ modelCalls = Len(outcomes)
                      + (IF pc \in {"Generating", "Executing", "Waiting"}
                         THEN 1 ELSE 0)
    \* every process follows a reply of the model in its own attempt
    /\ spawns = CountKind({"ran", "wait_failed"})
                  + (IF pc = "Waiting" THEN 1 ELSE 0)
    /\ spawns + CountKind({"generation_failed", "spawn_failed"})
         + (IF pc \in {"Generating", "Executing"} THEN 1 ELSE 0) = modelCalls

\* a generation failure after an attempt that ran a script
C18_Witness ==
    /\ Len(outcomes) = 2
    /\ outcomes[1].kind = "ran" /\ outcomes[1].script # <<>>
    /\ outcomes[2].kind = "generation_failed"
    /\ spawns = 1

(***************************************************************************)
(* C19 as stated: over a whole call the number of processes spawned equals *)
(* the number of attempts whose generation succeeded.                      *)
(***************************************************************************)
C19_SpawnsEqualGenerations ==
    pc \in {"Succeeded", "Exhausted"} =>
        spawns = CountKind({"spawn_failed", "wait_failed", "ran"})

(***************************************************************************)
(* C19 amended: each attempt whose generation succeeded calls spawn once,  *)
(* with that attempt's script; over a whole call the number of processes   *)
(* spawned equals the number of attempts whose generation succeeded and    *)
(* whose spawn did not fail, at most one per attempt and at most           *)
(* MAX_RETRIES in total, and no process serves a later attempt.            *)
(***************************************************************************)
C19_OneProcessPerSpawnedAttempt ==
    /\ spawns <= MAX_RETRIES
    /\ spawns = CountKind({"wait_failed", "ran"})
                  + (IF pc = "Waiting" THEN 1 ELSE 0)
    /\ pc \in {"Succeeded", "Exhausted"} =>
          spawns = CountKind({"spawn_failed", "wait_failed", "ran"})
                     - CountKind({"spawn_failed"})
    /\ \A i \in 1..Len(outcomes) :
          outcomes[i].kind \in {"spawn_failed", "wait_failed", "ran"} =>
              attempts[i].script = outcomes[i].script
    /\ pc = "Waiting" => Len(outcomes) = attempt - 1

\* three processes in one call
C19_Witness ==
    /\ pc = "Exhausted"
    /\ spawns = MAX_RETRIES
    /\ \A i \in 1..Len(outcomes) : outcomes[i].kind = "ran"

(***************************************************************************)
(* The execution at the level of tasks and pipes.                          *)
(***************************************************************************)
IsPrefix(s, t) == Len(s) <= Len(t) /\ s = SubSeq(t, 1, Len(s))

\* C15: the write of the document runs concurrently with the wait for the
\* output, so whatever the size of the document relative to the pipe and
\* however the script interleaves reading its stdin with writing its stdout
\* and stderr, while the executor waits some task or the process can take a
\* step, and the execution completes.
C15_NoDeadlock ==
    /\ [](io.main = "waiting" => ENABLED IoNext)
    /\ <>(io.main = "returned")

\* a document larger than the pipe, a script that wrote more than a pipe of
\* output before it read any input, and the execution completed
C15_Witness ==
    /\ io.main = "returned"
    /\ Len(io.doc) > PipeCap
    /\ io.received = io.doc
    /\ Len(io.stdout) > PipeCap
    /\ \A i \in 1..(PipeCap + 1) : io.prog[i] = "out"

\* C16 as stated: when the outcome of the execution is known, the task that
\* writes the input has completed.
C16_WriterJoined ==
    io.main = "returned" => io.writer = "finished"

\* C17: the process receives the bytes of the document in order and
\* unmodified, at most once; the stream is closed when the write ends, with
\* Ok or with Err; a script that reads its stdin to the end sees the end.
C17_InputDeliveredThenClosed ==
    /\ [](IsPrefix(io.received, io.doc))
    /\ [](io.proc = "running" =>
            io.received \o io.stdin_buf = SubSeq(io.doc, 1, io.written))
    /\ [](io.writer = "finished" =>
            /\ ~io.stdin_open
            /\ io.wresult \in {"ok", "err"}
            /\ (io.wresult = "ok" => io.written = Len(io.doc)))
    /\ [](io.saw_eof /\ io.wresult = "ok" => io.received = io.doc)
    /\ <>(~io.stdin_open)
    /\ ((CurrentOp = "read_all") ~> io.saw_eof)

\* a script read the whole document up to the end of its input
C17_Witness ==
    /\ io.saw_eof
    /\ io.wresult = "ok"
    /\ Len(io.doc) = MaxDocLen
    /\ io.received = io.doc
    /\ "read_all" \in {io.prog[i] : i \in 1..Len(io.prog)}

\* the write failed because the script ended before it read the document,
\* and the stream is closed
C17_FailedWriteWitness ==
    /\ io.wresult = "err"
    /\ ~io.stdin_open
    /\ io.written < Len(io.doc)

(***************************************************************************)
(* The two public functions, and calls that run concurrently.              *)
(***************************************************************************)
\* C14: run side by side on the same replies of the model and the same
\* outcomes of the processes, dynamic_parse and dynamic_parse_with_details
\* are at the same place of the same attempt with the same prompt, script,
\* log, number of model calls and number of processes; they return together,
\* the same error message or the same JSON text, the detailed variant with
\* the log in addition.
C14_SameStateMachine ==
    LET d == View(1)
    IN /\ d.pc = pc
       /\ d.attempt = attempt
       /\ d.attempts = attempts
       /\ d.user_prompt = user_prompt
       /\ d.python_script = python_script
       /\ d.modelCalls = modelCalls
       /\ d.spawns = spawns
       /\ (d.ret = None) = (ret = None)
       /\ ret # None =>
            /\ d.ret[1].ok = ret[1].ok
            /\ IF ret[1].ok
               THEN d.ret[1].val = <<ret[1].val, attempts>>
               ELSE d.ret[1].val = ret[1].val

\* both succeeded at the second attempt; the detailed variant returns the
\* log of the two attempts
C14_Witness ==
    /\ fn = "dynamic_parse"
    /\ pc = "Succeeded"
    /\ attempt = 2
    /\ View(1).pc = "Succeeded"
    /\ Len(View(1).ret[1].val[2]) = 2
    /\ View(1).ret[1].val[1] = ret[1].val

\* both failed at the last attempt with the same message
C14_FailureWitness ==
    /\ pc = "Exhausted"
    /\ View(1).pc = "Exhausted"
    /\ View(1).ret = ret

\* the state a call is in after the events of `trace`, when it runs alone
RECURSIVE Replay(_)
Replay(trace) ==
    IF trace = <<>> THEN details_new
    ELSE Apply(Replay(SubSeq(trace, 1, Len(trace) - 1)), trace[Len(trace)])

\* the events of `trace` that end an attempt
EndedAttempts(trace) ==
    {i \in 1..Len(trace) :
        trace[i].kind \in {"reply_err", "spawn_err", "wait_err", "output"}}

\* every prompt in the chat session of call c carries the document of call c
\* and of no other call, every reply in it was given to call c
OwnConversation(c) ==
    LET chat == View(c).chat
    IN \A i \in 1..Len(chat) :
         /\ chat[i].role = "user" =>
              /\ Contains(chat[i].content, ConcDocument(c))
              /\ \A o \in CallIds \ {c} :
                   ~Contains(chat[i].content, ConcDocument(o))
         /\ chat[i].role = "assistant" => chat[i].content \in ConcScripts(c)

\* the log of call c holds one record per attempt call c has ended, numbered
\* from 1, each with a script of call c or none
OwnAttemptLog(c) ==
    LET log == View(c).attempts
    IN /\ Len(log) = Cardinality(EndedAttempts(View(c).trace))
       /\ \A i \in 1..Len(log) :
            /\ log[i].attempt_number = i
            /\ log[i].script \in ConcScripts(c) \cup {<<>>}

\* C20: with two calls on one client, under every interleaving of their
\* steps, the log and the conversation of each call hold only its own
\* attempts and prompts, and the state of each call, its result included,
\* is the one it reaches alone on the same replies and outcomes.
C20_CallsAreIsolated ==
    \A c \in CallIds :
       /\ View(c) = Replay(View(c).trace)
       /\ OwnConversation(c)
       /\ OwnAttemptLog(c)

\* both calls are in flight, each after failed attempts of its own
C20_Witness ==
    /\ View(1).pc = "Waiting"
    /\ View(1).attempt = 2
    /\ View(2).pc = "Generating"
    /\ View(2).attempt = 3
    /\ Len(View(2).chat) > Len(View(1).chat)

(***************************************************************************)
(* The prompts of the retry loop.                                          *)
(***************************************************************************)
\* the places of `piece` in `text`
Positions(text, piece) == {i \in 1..Len(text) : text[i] = piece}

\* the lines the prompt must hold for a failed record
ListedRecord(a) ==
    <<"Attempt ">> \o IntToStr(a.attempt_number) \o <<": ", "FAILED - ">>
      \o a.error[1] \o <<"\n">>
      \o (IF a.script = <<>> THEN <<>>
          ELSE <<"Script that failed:\n", FENCE, "python\n">> \o a.script
                 \o <<"\n", FENCE, "\n\n">>)

\* C21: the prompt of attempt 1 has no previous-attempts section; the prompt
\* of attempt k > 1 lists every prior record of the log exactly once, in
\* attempt order, each with its number, its status, its error text and its
\* script when it has one; every prompt starts with the instructions and the
\* whole document and ends with the request for the next script.
C21_PromptLayout ==
    PromptBuilt =>
      LET marks == Positions(user_prompt, "Attempt ")
          head == <<"\n**Instructions:**\n">> \o instructions
                    \o <<"\n\n**Document to Parse:**\n---\n">> \o document
                    \o <<"\n---\n">>
      IN /\ SubSeq(user_prompt, 1, Len(head)) = head
         /\ user_prompt[Len(user_prompt)] = "Provide the Python script now:"
         /\ Cardinality(Positions(user_prompt,
                                  "Provide the Python script now:")) = 1
         /\ Cardinality(marks) = attempt - 1
         /\ Cardinality(Positions(user_prompt,
                "\n**Previous Attempts and Errors:**\n")) =
              (IF attempt = 1 THEN 0 ELSE 1)
         /\ \A i \in 1..(attempt - 1) :
              \E p \in marks :
                 /\ Cardinality({q \in marks : q < p}) = i - 1
                 /\ attempts[i].attempt_number = i
                 /\ SubSeq(user_prompt, p,
                           p + Len(ListedRecord(attempts[i])) - 1)
                      = ListedRecord(attempts[i])

\* the prompt of attempt 3 after a failed generation and a failed script
C21_Witness ==
    /\ pc = "Generating"
    /\ attempt = 3
    /\ outcomes[1].kind = "generation_failed"
    /\ ExitedNonZero(outcomes[2]) /\ attempts[2].script = <<"p", "y">>

\* the first prompt of a call
C21_FirstPromptWitness ==
    /\ pc = "Generating"
    /\ attempt = 1
    /\ Len(user_prompt) = Len(instructions) + Len(document) + 4

\* C23: when the retry loop builds the prompt of attempt k, the log has
\* exactly k-1 records, each with success = false and an error text; the
\* prompt never takes the SUCCESS branch of the history.
C23_PromptLogHasOnlyFailures ==
    /\ pc \in {"Composing", "Generating", "Executing", "Waiting"} =>
         /\ Len(attempts) = attempt - 1
         /\ \A i \in 1..Len(attempts) :
               /\ ~attempts[i].success
               /\ attempts[i].error # None
    /\ PromptBuilt =>
         /\ Positions(user_prompt, "SUCCESS\n") = {}
         /\ Cardinality(Positions(user_prompt, "FAILED - ")) = attempt - 1

\* the prompt of the last attempt was built from two failed records
C23_Witness ==
    /\ pc = "Generating"
    /\ attempt = MAX_RETRIES
    /\ Len(attempts) = MAX_RETRIES - 1
    /\ Cardinality(Positions(user_prompt, "FAILED - ")) = MAX_RETRIES - 1

(***************************************************************************)
(* The conversation of a call.                                             *)
(***************************************************************************)
CallInFlight(d) == d.pc \in {"Composing", "Generating", "Executing", "Waiting"}
CallEnded(d) == d.pc \in {"Succeeded", "Exhausted"}

Role(chat, role) == {j \in 1..Len(chat) : chat[j].role = role}

\* the events of `trace` in which the model returned a script
Replies(trace) == {i \in 1..Len(trace) : trace[i].kind = "reply"}

\* the conversation up to its last complete exchange
RECURSIVE Exchanges(_)
Exchanges(chat) ==
    IF chat = <<>> \/ chat[Len(chat)].role # "user" THEN chat
    ELSE Exchanges(SubSeq(chat, 1, Len(chat) - 1))

\* C22 as stated: the conversation of a call starts with the system prompt,
\* holds one exchange (prompt and reply) per attempt made, and is discarded
\* when the call ends.
C22_OneExchangePerAttempt ==
    LET d == View(1)
    IN /\ CallInFlight(d) => d.chat[1] = Message("system", get_system_prompt)
       /\ d.pc = "Composing" => Len(d.chat) = 1 + 2 * (d.attempt - 1)
       /\ CallEnded(d) => d.chat = no_chat

\* the conversation while the call runs
ConversationShape(d) ==
    LET chat == d.chat
    IN /\ chat # <<>>
       /\ Role(chat, "system") = {1}
       /\ chat[1].content = get_system_prompt
       /\ Cardinality(Role(chat, "assistant")) = Cardinality(Replies(d.trace))
       /\ \A j \in Role(chat, "assistant") : chat[j - 1].role = "user"
       /\ Cardinality(Role(chat, "user")) <= d.modelCalls
       /\ d.pc = "Composing" => Len(chat) <= 1 + 2 * (d.attempt - 1)
       /\ d.pc = "Generating" =>
            chat[Len(chat)] = Message("user", d.user_prompt)
       /\ d.pc \in {"Executing", "Waiting"} =>
            /\ chat[Len(chat) - 1] = Message("user", d.user_prompt)
            /\ chat[Len(chat)] = Message("assistant", d.python_script)

\* C22, amended: the conversation of a call starts with the system prompt
\* and is the only one the call uses; the prompt of attempt k comes after the
\* exchanges of the earlier attempts, which stay in place; the conversation
\* grows by one exchange (prompt and reply) per attempt in which the model
\* returned a script, an attempt whose generation failed adds no reply; the
\* conversation is discarded when the call ends.
C22_OneExchangePerGeneratedScript ==
    /\ [](CallInFlight(View(1)) => ConversationShape(View(1)))
    /\ [](CallEnded(View(1)) => View(1).chat = no_chat)
    /\ [][CallInFlight(View(1)) /\ CallInFlight(View(1))' =>
            IsPrefix(Exchanges(View(1).chat), View(1).chat')]_vars

\* the third attempt runs its script; the first attempt ran a script that
\* failed, the model call of the second failed and left its prompt
C22_Witness ==
    /\ View(1).pc = "Waiting"
    /\ View(1).attempt = 3
    /\ outcomes[1].kind = "ran"
    /\ outcomes[2].kind = "generation_failed"
    /\ Len(View(1).chat) = 6
    /\ Cardinality(Role(View(1).chat, "assistant")) = 2

=============================================================================
